---- MODULE Spec2Model ----
(***************************************************************************)
(* A model of the color palette generator: the ColorModel value object     *)
(* (hex / RGB / HSL / HSV kept in step by per-setter chains) and the       *)
(* ColorPaletteGenerator (base / light / dark palettes, getRandomPalette   *)
(* and getDistributedPalette).                                             *)
(*                                                                         *)
(* Numbers.  The program computes in IEEE doubles.  The model computes in  *)
(* fixed point: hue in tenths of a degree (0..3600), saturation, value and *)
(* lightness in tenths of a percent (0..1000), RGB channels in thousandths *)
(* of a unit (0..255000).  A quotient is rounded to the nearest step,      *)
(* except where the code itself floors or rounds, so a channel can differ  *)
(* from the double's by one in its last hex digit.  A hex code is the      *)
(* sequence of its characters, the '#' included.                           *)
(***************************************************************************)
EXTENDS Integers, Sequences, FiniteSets, TLC

\* ------------------------------------------------------------------ bounds

\* precision ranges over 1..MaxPrecision where palettes are only generated
MaxPrecision == 3

\* precision ranges over 1..MaxSelPrecision where palettes are selected from
MaxSelPrecision == 1

\* the length option of getRandomPalette ranges over 0..MaxRandomLength
MaxRandomLength == 2

\* the length option of getDistributedPalette ranges over 0..MaxDistLength
MaxDistLength == 4

\* calls of an adjuster or a setter on the generator's seed color
MaxAdjusts == 1

\* precision ranges over 1..MaxSinglePrecision where the single generators
\* are called
MaxSinglePrecision == 2

\* the single generators are called while a palette holds MaxPaletteLength
\* colors at most
MaxPaletteLength == 6

\* precision ranges over 1..MaxPassPrecision where the filter passes of
\* getRandomPalette are looked at
MaxPassPrecision == 3

\* the length option of getRandomPalette ranges over 0..MaxPassLength there
MaxPassLength == 1

\* ------------------------------------------------------------- arithmetic

Min(a, b) == IF a < b THEN a ELSE b

Max(a, b) == IF a > b THEN a ELSE b

\* a / b rounded to the nearest integer, for a >= 0 and b > 0
RDiv(a, b) == (2 * a + b) \div (2 * b)

\* Math.max(0, Math.min(100, x)) on tenths of a percent
Clamp100(x) == Max(0, Min(1000, x))

\* x + delta > max ? max : x + delta < min ? min : x + delta
ClampTo(x, max, min) == IF x > max THEN max ELSE IF x < min THEN min ELSE x

\* ------------------------------------------------------------- ColorModel

\* the digits toString(16) writes: the digit of value d is at index d + 1
HexDigits ==
    <<"0", "1", "2", "3", "4", "5", "6", "7", "8", "9",
      "a", "b", "c", "d", "e", "f">>

\* the digits [a-f\d] matches besides, under the i flag
UpperDigits ==
    <<"0", "1", "2", "3", "4", "5", "6", "7", "8", "9",
      "A", "B", "C", "D", "E", "F">>

\* [a-f\d] with the i flag: the character is a hex digit
IsHexDigit(ch) ==
    \E d \in 1..16 : ch = HexDigits[d] \/ ch = UpperDigits[d]

\* the value parseInt(ch, 16) gives a hex digit
DigitValue(ch) ==
    (CHOOSE d \in 1..16 : ch = HexDigits[d] \/ ch = UpperDigits[d]) - 1

\* a toHex that pads nothing: Math.round(x).toString(16)
toHexUnpadded(x) ==
    LET n == (x + 500) \div 1000
    IN  IF n < 16 THEN <<HexDigits[n + 1]>>
        ELSE <<HexDigits[(n \div 16) + 1], HexDigits[(n % 16) + 1]>>

\* toHex: Math.round(x).toString(16), padded to two digits
toHex(x) ==
    LET n == (x + 500) \div 1000
    IN  IF n < 16 THEN <<"0", HexDigits[n + 1]>>
        ELSE IF n < 256
        THEN <<HexDigits[(n \div 16) + 1], HexDigits[(n % 16) + 1]>>
        ELSE <<HexDigits[(n \div 256) + 1], HexDigits[((n \div 16) % 16) + 1],
               HexDigits[(n % 16) + 1]>>

\* "#" followed by the three channels
rgbToHex(rgb) == <<"#">> \o toHex(rgb.r) \o toHex(rgb.g) \o toHex(rgb.b)

\* a pattern without the $: six hex digits, and anything after them
hexToRgbUnanchored(hexCode) ==
    LET body == IF hexCode # << >> /\ hexCode[1] = "#" THEN Tail(hexCode)
                ELSE hexCode
        parseInt(i) == 16 * DigitValue(body[i]) + DigitValue(body[i + 1])
    IN  IF Len(body) >= 6 /\ \A i \in 1..6 : IsHexDigit(body[i])
        THEN [r |-> parseInt(1) * 1000,
              g |-> parseInt(3) * 1000,
              b |-> parseInt(5) * 1000]
        ELSE [r |-> 0, g |-> 0, b |-> 0]

\* the pattern /^#?([a-f\d]{2})([a-f\d]{2})([a-f\d]{2})$/i matches an
\* optional "#" and six hex digits, nothing before and nothing after; any
\* other code gives black
hexToRgb(hexCode) ==
    LET body == IF hexCode # << >> /\ hexCode[1] = "#" THEN Tail(hexCode)
                ELSE hexCode
        parseInt(i) == 16 * DigitValue(body[i]) + DigitValue(body[i + 1])
    IN  IF Len(body) = 6 /\ \A i \in 1..6 : IsHexDigit(body[i])
        THEN [r |-> parseInt(1) * 1000,
              g |-> parseInt(3) * 1000,
              b |-> parseInt(5) * 1000]
        ELSE [r |-> 0, g |-> 0, b |-> 0]

\* h, s and l are floored to whole degrees and percents
rgbToHsl(rgb) ==
    LET r == rgb.r
        g == rgb.g
        b == rgb.b
        max == Max(r, Max(g, b))
        min == Min(r, Min(g, b))
        d == max - min
        l == ((max + min) * 100) \div 510000
        s == IF max + min > 255000
             THEN (d * 100) \div (510000 - max - min)
             ELSE (d * 100) \div (max + min)
        h == IF max = r
             THEN (60 * (g - b) + (IF g < b THEN 360 * d ELSE 0)) \div d
             ELSE IF max = g
             THEN (60 * (b - r) + 120 * d) \div d
             ELSE (60 * (r - g) + 240 * d) \div d
    IN  IF max = min
        THEN [h |-> 0, s |-> 0, l |-> l * 10]
        ELSE [h |-> h * 10, s |-> s * 10, l |-> l * 10]

\* p, q in millionths, t in tenths of a degree of the turn (3600 = 1)
hue2rgb(p, q, t0) ==
    LET t1 == IF t0 < 0 THEN t0 + 3600 ELSE t0
        t == IF t1 > 3600 THEN t1 - 3600 ELSE t1
    IN  IF t < 600 THEN p + ((q - p) * t) \div 600
        ELSE IF t < 1800 THEN q
        ELSE IF t < 2400 THEN p + ((q - p) * (2400 - t)) \div 600
        ELSE p

hslToRgb(hsl) ==
    LET h == hsl.h
        s == hsl.s
        l == hsl.l
        q == IF l < 500 THEN l * (1000 + s) ELSE (l + s) * 1000 - l * s
        p == 2000 * l - q
        chan(x) == RDiv(x * 255, 1000)
    IN  IF s = 0
        THEN [r |-> l * 255, g |-> l * 255, b |-> l * 255]
        ELSE [r |-> chan(hue2rgb(p, q, h + 1200)),
              g |-> chan(hue2rgb(p, q, h)),
              b |-> chan(hue2rgb(p, q, h - 1200))]

\* V = s/100 * min(L, 1-L) + L; s = V ? 100 * (2 - 2L/V) : 0; v = 100 V
hslToHsv(hsl) ==
    LET sm == hsl.s * Min(hsl.l, 1000 - hsl.l)
        V == sm + 1000 * hsl.l
    IN  [h |-> hsl.h,
         s |-> IF V # 0 THEN RDiv(2000 * sm, V) ELSE 0,
         v |-> RDiv(V, 1000)]

\* L = V - V*s/200; m = min(L, 1-L); s = m ? 100 (V-L)/m : 0; l = 100 L
hsvToHsl(hsv) ==
    LET L == hsv.v * (2000 - hsv.s)
        m == Min(L, 2000000 - L)
    IN  [h |-> hsv.h,
         s |-> IF m # 0 THEN RDiv(1000 * hsv.v * hsv.s, m) ELSE 0,
         l |-> RDiv(L, 2000)]

\* set hex(value)
SetHex(value) ==
    LET rgb == hexToRgb(value)
        hsl == rgbToHsl(rgb)
    IN  [hex |-> value, rgb |-> rgb, hsl |-> hsl, hsv |-> hslToHsv(hsl)]

\* set rgb(value)
SetRgb(value) ==
    LET hsl == rgbToHsl(value)
    IN  [hex |-> rgbToHex(value), rgb |-> value, hsl |-> hsl,
         hsv |-> hslToHsv(hsl)]

\* a set hsl that derives hsv from the rgb it has just computed
SetHslThroughRgb(value) ==
    LET rgb == hslToRgb(value)
    IN  [hex |-> rgbToHex(rgb), rgb |-> rgb, hsl |-> value,
         hsv |-> hslToHsv(rgbToHsl(rgb))]

\* set hsl(value)
SetHsl(value) ==
    LET rgb == hslToRgb(value)
    IN  [hex |-> rgbToHex(rgb), rgb |-> rgb, hsl |-> value,
         hsv |-> hslToHsv(value)]

\* set hsv(value)
SetHsv(value) ==
    LET hsl == hsvToHsl(value)
        rgb == hslToRgb(hsl)
    IN  [hex |-> rgbToHex(rgb), rgb |-> rgb, hsl |-> hsl, hsv |-> value]

\* new ColorModel(hexCode)
NewColorModel(hexCode) == SetHex(hexCode)

\* the default hex code of the constructor, "#000000"
Black == <<"#", "0", "0", "0", "0", "0", "0">>

\* a comparison of the HSV representations
equalsHsv(c1, c2) == c1.hsv = c2.hsv

\* equals(color): this.hex === color.hex
equals(c1, c2) == c1.hex = c2.hex

\* saturate(saturation, max, min): writes hsv.s in place, then sets hsl from
\* hsv, which derives rgb, hex and hsv again
saturate(c, saturation, max, min) ==
    LET hsv == [c.hsv EXCEPT !.s = ClampTo(c.hsv.s + saturation, max, min)]
    IN  SetHsl(hsvToHsl(hsv))

\* a brighten that writes hsv.v, as saturate writes hsv.s
brightenValue(c, brightness, max, min) ==
    LET hsv == [c.hsv EXCEPT !.v = ClampTo(c.hsv.v + brightness, max, min)]
    IN  SetHsl(hsvToHsl(hsv))

\* brighten(brightness, max, min): writes hsl.l in place, then sets hsl from
\* the hsv it never touched, which replaces the hsl written
brighten(c, brightness, max, min) ==
    LET written == [c EXCEPT !.hsl.l = ClampTo(c.hsv.v + brightness, max,
                                               min)]
    IN  SetHsl(hsvToHsl(written.hsv))

\* a clone that returns the color itself: return this
cloneThis(c) == [value |-> c, instance |-> "this"]

\* clone(): new ColorModel(this.hex).  instance tells whose object the
\* value returned is: "new" for an object of its own, "this" for the color
\* cloned.
clone(c) == [value |-> NewColorModel(c.hex), instance |-> "new"]

\* addToHue(h, add), in tenths of a degree
addToHue(h, add) ==
    IF h + add > 3600 THEN (h + add) % 3600
    ELSE IF h + add < 0 THEN 3600 + h + add
    ELSE h + add

\* a finite JavaScript number
JsNumber(x) == [kind |-> "number", val |-> x]

\* a * s1 * s2 / d as JavaScript divides: 0 / 0 is NaN, a / 0 is Infinity;
\* a finite quotient is rounded to the nearest integer, in two steps that
\* keep the products small
JsQuotient(a, d, s1, s2) ==
    IF d = 0
    THEN [kind |-> IF a = 0 THEN "NaN" ELSE "Infinity", val |-> 0]
    ELSE JsNumber(((a * s1) \div d) * s2 + RDiv(((a * s1) % d) * s2, d))

\* isNaN(x) ? 0 : x
NaNToZero(x) == IF x.kind = "NaN" THEN JsNumber(0) ELSE x

\* rgbToCmyk up to the rounding: c, m, y and k before the isNaN tests.  A
\* result is in millionths when normalized, else in hundredths of a percent
\* (Math.round(c * 1e4) / 100).
CmykQuotients(rgb, normalized) ==
    LET c == 255000 - rgb.r
        m == 255000 - rgb.g
        y == 255000 - rgb.b
        k == Min(c, Min(m, y))
        s == IF normalized THEN 1000 ELSE 100
    IN  [c |-> JsQuotient(c - k, 255000 - k, s, s),
         m |-> JsQuotient(m - k, 255000 - k, s, s),
         y |-> JsQuotient(y - k, 255000 - k, s, s),
         k |-> IF normalized THEN JsNumber(RDiv(k * 1000, 255))
               ELSE JsNumber(RDiv(k * 2, 51))]

\* an rgbToCmyk without the isNaN tests
rgbToCmykUntested(rgb, normalized) == CmykQuotients(rgb, normalized)

\* rgbToCmyk(rgb, normalized)
rgbToCmyk(rgb, normalized) ==
    LET q == CmykQuotients(rgb, normalized)
    IN  [c |-> NaNToZero(q.c), m |-> NaNToZero(q.m), y |-> NaNToZero(q.y),
         k |-> NaNToZero(q.k)]

\* ----------------------------------------------------------------- inputs

\* the values a call of rand() returns, in tenths (0.0 and 0.5)
RandVals == {0, 5}

\* rand is injected: a stream <<a, b>> answers a, b, a, b, ...
RandStreams == RandVals \X RandVals

\* the streams that answer one value
ConstantStreams == {<<v, v>> : v \in RandVals}

\* the k-th draw of a stream
Draw(rs, k) == IF k % 2 = 1 THEN rs[1] ELSE rs[2]

\* hex codes handed to the constructor and to setBaseColor
BaseColorInputs == {<<"#", "3", "4", "5", "9", "c", "7">>, Black}

\* the amounts handed to saturate and brighten, in tenths of a percent
Deltas == {-300, 0, 200}

\* the max and min handed to saturate and brighten: the defaults, and a
\* narrower range
AdjustRanges == {[max |-> 1000, min |-> 0], [max |-> 800, min |-> 200]}

\* hues handed to addToHue, in tenths of a degree, from 0 to 360 degrees
Hues == {0, 100, 1000, 1800, 3500, 3600}

\* amounts handed to addToHue, in tenths of a degree
HueAdds == {-4000, -3700, -3600, -200, 0, 200, 500, 3600, 4000}

\* whole RGB channels from 0 to 255
Channels == {0, 9, 10, 15, 16, 52, 199, 255}

\* RGB colors of whole channels, in thousandths
RgbInputs ==
    {[r |-> r * 1000, g |-> g * 1000, b |-> b * 1000] :
        r \in Channels, g \in Channels, b \in Channels}

\* strings handed to hexToRgb, to the constructor of ColorModel and to the
\* hex setter: "#3459c7", "3459c7", "#3459C7", "#00000a", and strings the
\* pattern does not match: "", "#", "#345", "#3459c7f", "#3459cg",
\* "##3459c7" and " #3459c7"
HexInputs ==
    {<<"#", "3", "4", "5", "9", "c", "7">>,
     <<"3", "4", "5", "9", "c", "7">>,
     <<"#", "3", "4", "5", "9", "C", "7">>,
     <<"#", "0", "0", "0", "0", "0", "a">>,
     << >>,
     <<"#">>,
     <<"#", "3", "4", "5">>,
     <<"#", "3", "4", "5", "9", "c", "7", "f">>,
     <<"#", "3", "4", "5", "9", "c", "g">>,
     <<"#", "#", "3", "4", "5", "9", "c", "7">>,
     <<" ", "#", "3", "4", "5", "9", "c", "7">>}

\* values handed to the rgb setter, in thousandths: whole channels and
\* halves
RgbValues ==
    {[r |-> 52000, g |-> 89000, b |-> 199000],
     [r |-> 127500, g |-> 0, b |-> 255000],
     [r |-> 0, g |-> 0, b |-> 0]}

\* values handed to the hsl setter
HslValues ==
    {[h |-> 2240, s |-> 590, l |-> 490],
     [h |-> 100, s |-> 1000, l |-> 500],
     [h |-> 1200, s |-> 333, l |-> 0]}

\* values handed to the hsv setter
HsvValues ==
    {[h |-> 2240, s |-> 734, v |-> 774],
     [h |-> 3599, s |-> 505, v |-> 1000],
     [h |-> 600, s |-> 500, v |-> 0]}

\* hue ranges, in degrees
HueRanges == {180, 90}

\* brightness and saturation bounds handed to the two selections, in tenths
\* of a percent: the defaults, the README's 10..90 brightness, a saturation
\* floor, and bounds that few colors or none pass
FilterInputs ==
    {[minBrightness |-> 0, maxBrightness |-> 1000,
      minSaturation |-> 0, maxSaturation |-> 1000],
     [minBrightness |-> 100, maxBrightness |-> 900,
      minSaturation |-> 0, maxSaturation |-> 1000],
     [minBrightness |-> 0, maxBrightness |-> 1000,
      minSaturation |-> 600, maxSaturation |-> 1000],
     [minBrightness |-> 950, maxBrightness |-> 1000,
      minSaturation |-> 400, maxSaturation |-> 1000]}

\* ------------------------------------------------- ColorPaletteGenerator

\* precision, hueRange, baseColor and palettes are the generator's fields.
\* A ColorModel is an object: sharedAt is the set of the indexes of
\* palettes.base, counted from 1, whose element is the very instance
\* this.baseColor holds; every other element of the palettes is an instance
\* of its own.
\* adjusts counts the adjuster and setter calls made on this.baseColor.
\* pc is where the caller stands: "idle" between calls, "sampling" inside a
\* loop of getDistributedPalette, "returned" when a call has returned.
\* call holds the locals of the call, result the value it returned.
VARIABLES precision, hueRange, baseColor, palettes, sharedAt, adjusts, pc,
          call, result

vars == <<precision, hueRange, baseColor, palettes, sharedAt, adjusts, pc,
          call, result>>

\* the generator's fields, and what the model keeps about its objects
generator == <<precision, hueRange, baseColor, palettes, sharedAt, adjusts>>

\* a / b rounded to the nearest integer, for b > 0 and any a
SDiv(a, b) == IF a >= 0 THEN RDiv(a, b) ELSE -RDiv(-a, b)

\* setBaseColor(baseColor, baseSaturation): a new ColorModel, saturated by
\* baseSaturation (null adds nothing)
setBaseColor(hexCode, baseSaturation) ==
    saturate(NewColorModel(hexCode), baseSaturation, 1000, 0)

\* the color of pass A (sign = 1, unshifted) or pass B (sign = -1, pushed)
\* at step i: hue shifted by i * hueStep, saturation and value interpolated
\* from the seed towards endSaturation and endValue
BaseStep(seed, prec, range, i, sign, endSaturation, endValue) ==
    SetHsv([h |-> addToHue(seed.hsv.h, sign * RDiv(range * 5 * i, prec)),
            s |-> Clamp100(seed.hsv.s
                           + SDiv(i * (endSaturation - seed.hsv.s), prec)),
            v |-> Clamp100(seed.hsv.v
                           + SDiv(i * (endValue - seed.hsv.v), prec))])

\* a loop that stops one pass short: for (let i = 1; i < this.precision; i++)
BaseIterationsShort(prec) == prec - 1

\* the iterations of each loop of generateBasePalette:
\* for (let i = 1; i <= this.precision; i++)
BaseIterations(prec) == prec

\* the colors of pass A pushed instead of unshifted: the seed comes first
generateBasePalettePushed(base, seed, prec, range, rs, k0) ==
    LET n == BaseIterations(prec)
        endSatA == 225 + 5 * Draw(rs, k0 + 1)
        endValA == 900 + RDiv(75 * Draw(rs, k0 + 2), 10)
        endSatB == 900 + RDiv(75 * Draw(rs, k0 + 3), 10)
        endValB == 225 + 5 * Draw(rs, k0 + 4)
        passA == [k \in 1..n |->
                    BaseStep(seed, prec, range, k, 1, endSatA, endValA)]
        passB == [k \in 1..n |->
                    BaseStep(seed, prec, range, k, -1, endSatB, endValB)]
    IN  Append(base, seed) \o passA \o passB

\* generateBasePalette: pushes the seed on the base palette, then unshifts
\* the colors of pass A and pushes those of pass B.  rand is drawn from
\* draw k0 + 1 on.
generateBasePalette(base, seed, prec, range, rs, k0) ==
    LET n == BaseIterations(prec)
        endSatA == 225 + 5 * Draw(rs, k0 + 1)
        endValA == 900 + RDiv(75 * Draw(rs, k0 + 2), 10)
        endSatB == 900 + RDiv(75 * Draw(rs, k0 + 3), 10)
        endValB == 225 + 5 * Draw(rs, k0 + 4)
        passA == [k \in 1..n |->
                    BaseStep(seed, prec, range, n + 1 - k, 1, endSatA, endValA)]
        passB == [k \in 1..n |->
                    BaseStep(seed, prec, range, k, -1, endSatB, endValB)]
    IN  passA \o Append(base, seed) \o passB

\* one color of the light (sign = -1) or dark (sign = 1) palette
Variant(c, sign, hue, saturation, value) ==
    LET color == NewColorModel(c.hex)
    IN  SetHsv([h |-> addToHue(color.hsv.h, sign * hue),
                s |-> Clamp100(color.hsv.s + sign * saturation),
                v |-> Clamp100(color.hsv.v - sign * value)])

\* generateLightPalette: one color pushed per base color
generateLightPalette(light, base, rs, k0) ==
    LET hue == 75 + 5 * Draw(rs, k0 + 1)
        saturation == 225 + RDiv(75 * Draw(rs, k0 + 2), 10)
        value == 275 + RDiv(75 * Draw(rs, k0 + 3), 10)
    IN  light \o [i \in 1..Len(base) |->
                    Variant(base[i], -1, hue, saturation, value)]

\* generateDarkPalette: one color pushed per base color
generateDarkPalette(dark, base, rs, k0) ==
    LET hue == 75 + 5 * Draw(rs, k0 + 1)
        saturation == 225 + RDiv(75 * Draw(rs, k0 + 2), 10)
        value == 275 + RDiv(75 * Draw(rs, k0 + 3), 10)
    IN  dark \o [i \in 1..Len(base) |->
                    Variant(base[i], 1, hue, saturation, value)]

\* this.palettes.base.push(this.baseColor) pushes the seed's instance
\* itself, and the colors unshifted before it leave it at this index of
\* base, counted from 1
SeedIndex(prec) == BaseIterations(prec) + 1

\* generatePalettes: the three palettes are emptied and generated again
generatePalettes(seed, prec, range, rs, k0) ==
    LET base == generateBasePalette(<< >>, seed, prec, range, rs, k0)
    IN  [base |-> base,
         light |-> generateLightPalette(<< >>, base, rs, k0 + 4),
         dark |-> generateDarkPalette(<< >>, base, rs, k0 + 7)]

\* a getter that spreads base first: [...base, ...light, ...dark]
fullPaletteBaseFirst == palettes.base \o palettes.light \o palettes.dark

\* get fullPalette
fullPalette == palettes.light \o palettes.base \o palettes.dark

\* the seed of a generator constructed without a base color or saturation:
\* black, then hsv set from three draws of rand
RandomBaseColor(rs) ==
    SetHsv([h |-> RDiv(Draw(rs, 1) * 360, 10) * 10,
            s |-> RDiv(Draw(rs, 2) * 20, 10) * 10 + 650,
            v |-> RDiv(Draw(rs, 3) * 20, 10) * 10 + 650])

\* the state when new ColorPaletteGenerator({rand, precision, hueRange,
\* baseColor}) returns, with a hex code as baseColor
InitFromHex(maxPrecision, ranges, streams) ==
    /\ precision \in 1..maxPrecision
    /\ hueRange \in ranges
    /\ baseColor \in {setBaseColor(h, 0) : h \in BaseColorInputs}
    /\ \E rs \in streams :
         palettes = generatePalettes(baseColor, precision, hueRange, rs, 0)
    /\ sharedAt = {SeedIndex(precision)}
    /\ adjusts = 0
    /\ pc = "returned"
    /\ call = [op |-> "constructor"]
    /\ result = << >>

\* the state when new ColorPaletteGenerator({rand, precision, hueRange})
\* returns
InitFromRand(maxPrecision, ranges, streams) ==
    /\ precision \in 1..maxPrecision
    /\ hueRange \in ranges
    /\ \E rs \in streams :
         /\ baseColor = RandomBaseColor(rs)
         /\ palettes = generatePalettes(baseColor, precision, hueRange, rs, 3)
    /\ sharedAt = {SeedIndex(precision)}
    /\ adjusts = 0
    /\ pc = "returned"
    /\ call = [op |-> "constructor"]
    /\ result = << >>

\* generator.precision = p
SetPrecision(maxPrecision) ==
    /\ pc = "idle"
    /\ \E p \in 1..maxPrecision : precision' = p
    /\ UNCHANGED <<hueRange, baseColor, palettes, sharedAt, adjusts, pc, call,
                   result>>

\* generator.hueRange = h
SetHueRange ==
    /\ pc = "idle"
    /\ \E h \in HueRanges : hueRange' = h
    /\ UNCHANGED <<precision, baseColor, palettes, sharedAt, adjusts, pc, call,
                   result>>

\* a setBaseColor that generates the palettes again
SetBaseColorRegenerating ==
    /\ pc = "idle"
    /\ \E h \in BaseColorInputs :
         /\ baseColor' = setBaseColor(h, 0)
         /\ palettes' = generatePalettes(baseColor', precision, hueRange,
                                         <<0, 0>>, 0)
    /\ sharedAt' = {SeedIndex(precision)}
    /\ UNCHANGED <<precision, hueRange, adjusts, pc, call, result>>

\* generator.setBaseColor(hexCode)
SetBaseColor ==
    /\ pc = "idle"
    /\ \E h \in BaseColorInputs : baseColor' = setBaseColor(h, 0)
    /\ sharedAt' = {}
    /\ UNCHANGED <<precision, hueRange, palettes, adjusts, pc, call, result>>

\* a generatePalettes that keeps the arrays it finds and appends to them
GeneratePalettesAppending(streams) ==
    /\ pc = "idle"
    /\ \E rs \in streams :
         LET base == generateBasePalette(palettes.base, baseColor, precision,
                                         hueRange, rs, 0)
         IN  palettes' =
                [base |-> base,
                 light |-> generateLightPalette(palettes.light, base, rs, 4),
                 dark |-> generateDarkPalette(palettes.dark, base, rs, 7)]
    /\ sharedAt' = {SeedIndex(precision)}
    /\ call' = [op |-> "generatePalettes"]
    /\ pc' = "returned"
    /\ UNCHANGED <<precision, hueRange, baseColor, adjusts, result>>

\* generator.generatePalettes()
GeneratePalettes(streams) ==
    /\ pc = "idle"
    /\ \E rs \in streams :
         palettes' = generatePalettes(baseColor, precision, hueRange, rs, 0)
    /\ sharedAt' = {SeedIndex(precision)}
    /\ call' = [op |-> "generatePalettes"]
    /\ pc' = "returned"
    /\ UNCHANGED <<precision, hueRange, baseColor, adjusts, result>>

\* generator.generateBasePalette(), called by the caller: the seed is pushed
\* on the base palette as it is, the colors of pass A are unshifted before
\* the colors it held and those of pass B pushed after.  The call is made
\* while the palette it leaves holds maxLength colors at most.
GenerateBasePalette(streams, maxLength) ==
    /\ pc = "idle"
    /\ Len(palettes.base) + 2 * BaseIterations(precision) + 1 <= maxLength
    /\ \E rs \in streams :
         palettes' = [palettes EXCEPT
                        !.base = generateBasePalette(@, baseColor, precision,
                                                     hueRange, rs, 0)]
    /\ sharedAt' = {k + BaseIterations(precision) : k \in sharedAt}
                   \cup {Len(palettes.base) + SeedIndex(precision)}
    /\ call' = [op |-> "generateBasePalette"]
    /\ pc' = "returned"
    /\ UNCHANGED <<precision, hueRange, baseColor, adjusts, result>>

\* generator.generateLightPalette(), called by the caller: one color is
\* pushed on the light palette for each color of the base palette
GenerateLightPalette(streams, maxLength) ==
    /\ pc = "idle"
    /\ Len(palettes.light) + Len(palettes.base) <= maxLength
    /\ \E rs \in streams :
         palettes' = [palettes EXCEPT
                        !.light = generateLightPalette(@, palettes.base, rs,
                                                       0)]
    /\ call' = [op |-> "generateLightPalette"]
    /\ pc' = "returned"
    /\ UNCHANGED <<precision, hueRange, baseColor, sharedAt, adjusts, result>>

\* generator.generateDarkPalette(), called by the caller: one color is
\* pushed on the dark palette for each color of the base palette
GenerateDarkPalette(streams, maxLength) ==
    /\ pc = "idle"
    /\ Len(palettes.dark) + Len(palettes.base) <= maxLength
    /\ \E rs \in streams :
         palettes' = [palettes EXCEPT
                        !.dark = generateDarkPalette(@, palettes.base, rs,
                                                     0)]
    /\ call' = [op |-> "generateDarkPalette"]
    /\ pc' = "returned"
    /\ UNCHANGED <<precision, hueRange, baseColor, sharedAt, adjusts, result>>

\* the caller takes the value returned and goes on
Return ==
    /\ pc = "returned"
    /\ pc' = "idle"
    /\ call' = << >>
    /\ result' = << >>
    /\ UNCHANGED generator

\* ------------------------------------------------ calls on a ColorModel

\* the color a holder holds: holder 0 is this.baseColor, holder j the j-th
\* element of fullPalette
Held(holder) == IF holder = 0 THEN baseColor ELSE fullPalette[holder]

\* a write to the instance a holder holds, seen through every holder of
\* that instance: this.baseColor and the elements of palettes.base at the
\* indexes of sharedAt hold one instance
WriteHeld(holder, c) ==
    LET n == Len(palettes.light)
        m == n + Len(palettes.base)
        seed == \/ holder = 0
                \/ holder - n \in sharedAt
    IN  /\ baseColor' = IF seed THEN c ELSE baseColor
        /\ palettes' =
             IF seed
             THEN [palettes EXCEPT
                     !.base = [k \in 1..Len(palettes.base) |->
                                  IF k \in sharedAt THEN c
                                  ELSE palettes.base[k]]]
             ELSE IF holder <= n
             THEN [palettes EXCEPT !.light[holder] = c]
             ELSE IF holder <= m
             THEN [palettes EXCEPT !.base[holder - n] = c]
             ELSE [palettes EXCEPT !.dark[holder - m] = c]

\* what a call of an adjuster or of the hex setter leaves of a color
Adjusted(c, a) ==
    IF a.name = "saturate" THEN saturate(c, a.delta, a.max, a.min)
    ELSE IF a.name = "brighten" THEN brighten(c, a.delta, a.max, a.min)
    ELSE SetHex(a.hex)

\* the calls the caller makes on a color: saturate and brighten with an
\* amount and a range, and the hex setter
Adjustments ==
    {[name |-> n, delta |-> d, max |-> r.max, min |-> r.min] :
        n \in {"saturate", "brighten"}, d \in Deltas, r \in AdjustRanges}
    \cup {[name |-> "hex", hex |-> h] : h \in BaseColorInputs}

\* generator.baseColor.saturate(...), generator.baseColor.brighten(...) or
\* generator.baseColor.hex = ...: a call on the instance the generator holds
AdjustBaseColor(maxAdjusts) ==
    /\ pc = "idle"
    /\ adjusts < maxAdjusts
    /\ \E a \in Adjustments :
         /\ WriteHeld(0, Adjusted(baseColor, a))
         /\ call' = [op |-> "adjust", adjust |-> a, before |-> baseColor]
    /\ adjusts' = adjusts + 1
    /\ result' = << >>
    /\ pc' = "returned"
    /\ UNCHANGED <<precision, hueRange, sharedAt>>

\* c.clone() for a color c the generator holds: the caller holds the color
\* returned
Clone ==
    /\ pc = "idle"
    /\ \E holder \in 0..Len(fullPalette) :
         /\ call' = [op |-> "clone", holder |-> holder,
                     instance |-> clone(Held(holder)).instance]
         /\ result' = <<clone(Held(holder)).value>>
    /\ pc' = "returned"
    /\ UNCHANGED generator

\* the caller adjusts or sets the color clone() returned.  The write reaches
\* the color cloned only if the two are one instance.
AdjustClone ==
    /\ pc = "returned"
    /\ call.op = "clone"
    /\ \E a \in Adjustments :
         /\ result' = <<Adjusted(result[1], a)>>
         /\ IF call.instance = "this"
            THEN WriteHeld(call.holder, Adjusted(result[1], a))
            ELSE UNCHANGED <<baseColor, palettes>>
         /\ call' = [op |-> "cloneAdjusted", holder |-> call.holder,
                     adjust |-> a, before |-> result[1]]
    /\ UNCHANGED <<precision, hueRange, sharedAt, adjusts, pc>>

\* -------------------------------------- a ColorModel of the caller's own

\* what the setter of a representation leaves of a color
SetTo(rep, value) ==
    IF rep = "hex" THEN SetHex(value)
    ELSE IF rep = "rgb" THEN SetRgb(value)
    ELSE IF rep = "hsl" THEN SetHsl(value)
    ELSE SetHsv(value)

\* new ColorModel(hexCode): the caller holds the color
NewColor ==
    /\ pc = "idle"
    /\ \E h \in HexInputs :
         /\ call' = [op |-> "new", value |-> h]
         /\ result' = <<NewColorModel(h)>>
    /\ pc' = "returned"
    /\ UNCHANGED generator

\* color.hex = v, color.rgb = v, color.hsl = v or color.hsv = v on the color
\* the caller holds
SetColor ==
    LET Set(rep, v) ==
            /\ call' = [op |-> "set", rep |-> rep, value |-> v,
                        before |-> result[1]]
            /\ result' = <<SetTo(rep, v)>>
    IN  /\ pc = "returned"
        /\ call.op \in {"new", "set"}
        /\ \/ \E v \in HexInputs : Set("hex", v)
           \/ \E v \in RgbValues : Set("rgb", v)
           \/ \E v \in HslValues : Set("hsl", v)
           \/ \E v \in HsvValues : Set("hsv", v)
        /\ UNCHANGED <<generator, pc>>

\* color.addToHue(h, add)
AddToHue ==
    /\ pc = "idle"
    /\ \E h \in Hues, add \in HueAdds :
         /\ call' = [op |-> "addToHue", h |-> h, add |-> add]
         /\ result' = <<addToHue(h, add)>>
    /\ pc' = "returned"
    /\ UNCHANGED generator

\* color.rgbToHex(rgb), and color.hexToRgb of the code returned
RgbToHex ==
    /\ pc = "idle"
    /\ \E rgb \in RgbInputs :
         /\ call' = [op |-> "rgbToHex", rgb |-> rgb]
         /\ result' = <<rgbToHex(rgb), hexToRgb(rgbToHex(rgb))>>
    /\ pc' = "returned"
    /\ UNCHANGED generator

\* color.hexToRgb(hexCode)
HexToRgb ==
    /\ pc = "idle"
    /\ \E h \in HexInputs :
         /\ call' = [op |-> "hexToRgb", hexCode |-> h]
         /\ result' = <<hexToRgb(h)>>
    /\ pc' = "returned"
    /\ UNCHANGED generator

\* color.rgbToCmyk(rgb, normalized)
RgbToCmyk ==
    /\ pc = "idle"
    /\ \E rgb \in RgbInputs, normalized \in BOOLEAN :
         /\ call' = [op |-> "rgbToCmyk", rgb |-> rgb,
                     normalized |-> normalized]
         /\ result' = <<rgbToCmyk(rgb, normalized)>>
    /\ pc' = "returned"
    /\ UNCHANGED generator

\* ------------------------------------------------------ palette selection

\* a filter chain without the filter on maxBrightness
FilterBoundsNoMax(seq, f) ==
    SelectSeq(seq, LAMBDA c : /\ c.hsv.v >= f.minBrightness
                              /\ c.hsv.s >= f.minSaturation
                              /\ c.hsv.s <= f.maxSaturation)

\* the four filters on hsv.v and hsv.s
FilterBounds(seq, f) ==
    SelectSeq(seq, LAMBDA c : /\ c.hsv.v >= f.minBrightness
                              /\ c.hsv.v <= f.maxBrightness
                              /\ c.hsv.s >= f.minSaturation
                              /\ c.hsv.s <= f.maxSaturation)

\* filter((c, index) => index % 2 === 1): the 2nd, 4th, ... element
OddIndexes(seq) == [k \in 1..(Len(seq) \div 2) |-> seq[2 * k]]

\* one filter pass where the loop makes two
FilterPassesOnce(seq, filterPasses, prec) ==
    IF filterPasses /\ prec > 2 THEN OddIndexes(seq) ELSE seq

\* the two filter passes, applied when filterPasses is set and precision > 2
FilterPasses(seq, filterPasses, prec) ==
    IF filterPasses /\ prec > 2 THEN OddIndexes(OddIndexes(seq)) ELSE seq

\* the sequences of k distinct elements of S
RECURSIVE Arrangements(_, _)
Arrangements(S, k) ==
    IF k = 0 THEN {<< >>}
    ELSE UNION {{<<x>> \o t : t \in Arrangements(S \ {x}, k - 1)} : x \in S}

\* a cut one element late: slice(0, length + 1)
SliceLengthLate(n, length) == Min(n, length + 1)

\* slice(0, length) keeps the first length elements, all of them when the
\* array is shorter
SliceLength(n, length) == Min(n, length)

\* sort(() => rand() - 0.5) then slice(0, length): the comparator is not
\* consistent, so the order is the engine's and every order is an outcome.
\* The set of the sequences the two calls can leave.
ShuffleSlice(seq, length) ==
    {[k \in 1..SliceLength(Len(seq), length) |-> seq[a[k]]] :
        a \in Arrangements(1..Len(seq), SliceLength(Len(seq), length))}

\* sort((a, b) => a.hsv.v - b.hsv.v): a stable sort, ascending in hsv.v
RECURSIVE InsertByV(_, _)
InsertByV(sorted, c) ==
    IF sorted = << >> THEN <<c>>
    ELSE IF sorted[Len(sorted)].hsv.v <= c.hsv.v THEN Append(sorted, c)
    ELSE Append(InsertByV(SubSeq(sorted, 1, Len(sorted) - 1), c),
                sorted[Len(sorted)])

RECURSIVE SortByV(_)
SortByV(seq) ==
    IF seq = << >> THEN << >>
    ELSE InsertByV(SortByV(SubSeq(seq, 1, Len(seq) - 1)), seq[Len(seq)])

\* a sort from light to dark: sort((a, b) => b.hsv.v - a.hsv.v)
RandomSortDescending(sortByBrightness, seq) ==
    IF sortByBrightness
    THEN [k \in 1..Len(seq) |-> SortByV(seq)[Len(seq) + 1 - k]]
    ELSE seq

\* if (sortByBrightness) randomPalette.sort(...), in getRandomPalette
RandomSort(sortByBrightness, seq) ==
    IF sortByBrightness THEN SortByV(seq) ELSE seq

\* if (length < 1) length = 1
RandomLength(length) == IF length < 1 THEN 1 ELSE length

\* a seed written only over a color that is there:
\* if (!hasBaseColor && randomPalette.length) randomPalette[0] = ...
ForceBaseColorNonEmpty(seq, includeBaseColor, seed) ==
    IF includeBaseColor /\ seq # << >>
       /\ ~ \E k \in 1..Len(seq) : seq[k].hex = seed.hex
    THEN <<seed>> \o Tail(seq)
    ELSE seq

\* if (includeBaseColor) and no color equals the seed: randomPalette[0] =
\* this.baseColor
ForceBaseColor(seq, includeBaseColor, seed) ==
    IF includeBaseColor /\ ~ \E k \in 1..Len(seq) : equals(seq[k], seed)
    THEN <<seed>> \o (IF seq = << >> THEN << >> ELSE Tail(seq))
    ELSE seq

\* the pool getRandomPalette shuffles
RandomPool(f, filterPasses) ==
    FilterPasses(FilterBounds(fullPalette, f), filterPasses, precision)

\* a getRandomPalette that sorts this.palettes.base itself
GetRandomPaletteInPlace(maxLength) ==
    /\ pc = "idle"
    /\ \E length \in 0..maxLength, includeBaseColor \in BOOLEAN,
          filterPasses \in BOOLEAN, sortByBrightness \in BOOLEAN,
          f \in FilterInputs :
         LET pool == RandomPool(f, filterPasses)
         IN  \E shuffled \in ShuffleSlice(pool, RandomLength(length)) :
                /\ call' = [op |-> "getRandomPalette", length |-> length,
                            includeBaseColor |-> includeBaseColor,
                            filterPasses |-> filterPasses,
                            sortByBrightness |-> sortByBrightness,
                            filter |-> f, pool |-> pool,
                            shuffled |-> shuffled]
                /\ result' = RandomSort(sortByBrightness,
                                        ForceBaseColor(shuffled,
                                                       includeBaseColor,
                                                       baseColor))
                /\ palettes' = [palettes EXCEPT
                                  !.base = RandomSort(sortByBrightness, @)]
    /\ pc' = "returned"
    /\ UNCHANGED <<precision, hueRange, baseColor, sharedAt, adjusts>>

\* generator.getRandomPalette({length, includeBaseColor, filterPasses,
\* sortByBrightness, minBrightness, maxBrightness, minSaturation,
\* maxSaturation}).  call keeps the options the claims speak of, the four
\* bounds as filter, the pool and the shuffled and cut palette.
GetRandomPalette(maxLength) ==
    /\ pc = "idle"
    /\ \E length \in 0..maxLength, includeBaseColor \in BOOLEAN,
          filterPasses \in BOOLEAN, sortByBrightness \in BOOLEAN,
          f \in FilterInputs :
         LET pool == RandomPool(f, filterPasses)
         IN  \E shuffled \in ShuffleSlice(pool, RandomLength(length)) :
                /\ call' = [op |-> "getRandomPalette", length |-> length,
                            includeBaseColor |-> includeBaseColor,
                            filterPasses |-> filterPasses,
                            sortByBrightness |-> sortByBrightness,
                            filter |-> f, pool |-> pool,
                            shuffled |-> shuffled]
                /\ result' = RandomSort(sortByBrightness,
                                        ForceBaseColor(shuffled,
                                                       includeBaseColor,
                                                       baseColor))
    /\ pc' = "returned"
    /\ UNCHANGED generator

\* if (includeBaseColor) length = Math.max(0, length - 1)
DistLength(length, includeBaseColor) ==
    IF includeBaseColor THEN Max(0, length - 1) ELSE length

\* the three brightness bands of the pool
Band(pool, phase) ==
    IF phase = "dark" THEN SelectSeq(pool, LAMBDA c : c.hsv.v <= 375)
    ELSE IF phase = "light" THEN SelectSeq(pool, LAMBDA c : c.hsv.v >= 875)
    ELSE SelectSeq(pool, LAMBDA c : c.hsv.v > 375 /\ c.hsv.v < 875)

\* a dark and a light share of half the length: Math.floor(length / 2)
IterationsHalf(pool, phase, length, nbColors) ==
    IF phase = "base"
    THEN Min(Len(Band(pool, phase)), length - nbColors)
    ELSE Min(Len(Band(pool, phase)), length \div 2)

\* a dark and a light share of a third of the length: Math.floor(length / 3)
IterationsThird(pool, phase, length, nbColors) ==
    IF phase = "base"
    THEN Min(Len(Band(pool, phase)), length - nbColors)
    ELSE Min(Len(Band(pool, phase)), length \div 3)

\* the iterations of a band's loop: Math.floor(length / 4) at most for the
\* dark and the light band, what is left of length for the mid band
Iterations(pool, phase, length, nbColors) ==
    IF phase = "base"
    THEN Min(Len(Band(pool, phase)), length - nbColors)
    ELSE Min(Len(Band(pool, phase)), length \div 4)

\* a while condition without the test on the seed
RejectedWhenDrawn(band, indexes, index, includeBaseColor, seed) ==
    \E k \in 1..Len(indexes) : indexes[k] = index

\* the condition of a while loop, for a drawn index: it was drawn before in
\* this band, or the seed is included and the color equals it.  Indexes
\* are counted from 1.
Rejected(band, indexes, index, includeBaseColor, seed) ==
    \/ \E k \in 1..Len(indexes) : indexes[k] = index
    \/ includeBaseColor /\ equals(band[index], seed)

\* where control stands once the loops that have run out are left: the
\* band whose loop draws next, or "done"
RECURSIVE Settle(_)
Settle(c) ==
    IF c.phase = "done" THEN c
    ELSE IF Len(c.indexes[c.phase])
              < Iterations(c.pool, c.phase, c.length, c.nbColors)
    THEN c
    ELSE Settle([c EXCEPT !.phase = IF c.phase = "dark" THEN "light"
                                    ELSE IF c.phase = "light" THEN "base"
                                    ELSE "done"])

\* the locals of getDistributedPalette when the pool is filtered: requested
\* is the length option, length what is left of it once the seed is pushed,
\* filter the four bounds
DistEnter(requested, includeBaseColor, sortByBrightness, f, pool, phase) ==
    [op |-> "getDistributedPalette", requested |-> requested,
     filter |-> f,
     length |-> DistLength(requested, includeBaseColor),
     includeBaseColor |-> includeBaseColor,
     sortByBrightness |-> sortByBrightness, pool |-> pool,
     phase |-> phase, nbColors |-> 0,
     indexes |-> [dark |-> << >>, light |-> << >>, base |-> << >>],
     returnedPalette |-> IF includeBaseColor THEN <<baseColor>> ELSE << >>]

\* a loop pushes the index drawn and the color at it; nbColors counts the
\* dark and the light colors
DistPush(c, index) ==
    [c EXCEPT !.indexes[c.phase] = Append(@, index),
              !.nbColors = IF c.phase = "base" THEN @ ELSE @ + 1,
              !.returnedPalette = Append(@, Band(c.pool, c.phase)[index])]

\* if (sortByBrightness) returnedPalette.sort(...), after the loops
DistSort(sortByBrightness, seq) ==
    IF sortByBrightness THEN SortByV(seq) ELSE seq

\* control leaves the call when no loop is left to run: the palette is
\* sorted if asked and returned; else the call stands in a loop
DistContinue(c) ==
    IF c.phase = "done"
    THEN /\ pc' = "returned"
         /\ result' = DistSort(c.sortByBrightness, c.returnedPalette)
    ELSE /\ pc' = "sampling"
         /\ result' = << >>

\* a small-pool test without the margin: fullPalette.length <= length
DistFallbackTight(pool, length) == Len(pool) <= length

\* if (fullPalette.length <= length + 1): the pool is small
DistFallback(pool, length) == Len(pool) <= length + 1

\* generator.getDistributedPalette({length, includeBaseColor,
\* sortByBrightness, minBrightness, maxBrightness, minSaturation,
\* maxSaturation}).  With a small pool the pool is shuffled, cut to length
\* and returned.  With a larger pool the call runs up to the first draw of
\* a loop, or to the return if no loop has an iteration.
GetDistributedPalette(maxLength) ==
    /\ pc = "idle"
    /\ \E length \in 0..maxLength, includeBaseColor \in BOOLEAN,
          sortByBrightness \in BOOLEAN, f \in FilterInputs :
         LET pool == FilterBounds(fullPalette, f)
             small == DistFallback(pool,
                                   DistLength(length, includeBaseColor))
             c == DistEnter(length, includeBaseColor, sortByBrightness, f,
                            pool, IF small THEN "fallback" ELSE "dark")
         IN  IF small
             THEN /\ result' \in ShuffleSlice(pool, c.length)
                  /\ call' = c
                  /\ pc' = "returned"
             ELSE /\ call' = Settle(c)
                  /\ DistContinue(call')
    /\ UNCHANGED generator

\* index = getRandomIndex(band), and the loop's condition lets it through
DistDraw ==
    /\ pc = "sampling"
    /\ LET band == Band(call.pool, call.phase)
       IN  \E index \in 1..Len(band) :
              /\ ~ Rejected(band, call.indexes[call.phase], index,
                            call.includeBaseColor, baseColor)
              /\ call' = Settle(DistPush(call, index))
              /\ DistContinue(call')
    /\ UNCHANGED generator

\* index = getRandomIndex(band), and the loop's condition holds: the loop
\* goes round again
DistRedraw ==
    /\ pc = "sampling"
    /\ LET band == Band(call.pool, call.phase)
       IN  \E index \in 1..Len(band) :
              Rejected(band, call.indexes[call.phase], index,
                       call.includeBaseColor, baseColor)
    /\ UNCHANGED vars

\* --------------------------------------------------------- specifications

\* construction, configuration and generation
Init ==
    \/ InitFromHex(MaxPrecision, HueRanges, RandStreams)
    \/ InitFromRand(MaxPrecision, HueRanges, RandStreams)

Next ==
    \/ SetPrecision(MaxPrecision)
    \/ SetHueRange
    \/ SetBaseColor
    \/ GeneratePalettes(RandStreams)
    \/ Return

Spec == Init /\ [][Next]_vars

\* The selections read precision, baseColor and palettes, never hueRange,
\* and leave the generator as it is: the specifications of the selections
\* take one hue range, and each takes the selection its claims are about.
InitSel == InitFromHex(MaxSelPrecision, {180}, ConstantStreams)

\* construction, configuration, generation and getRandomPalette
NextRandom ==
    \/ SetPrecision(MaxSelPrecision)
    \/ SetBaseColor
    \/ GeneratePalettes(ConstantStreams)
    \/ GetRandomPalette(MaxRandomLength)
    \/ Return

SpecRandom == InitSel /\ [][NextRandom]_vars

\* construction, configuration, generation and getDistributedPalette
NextDist ==
    \/ SetPrecision(MaxSelPrecision)
    \/ SetBaseColor
    \/ GeneratePalettes(ConstantStreams)
    \/ GetDistributedPalette(MaxDistLength)
    \/ DistDraw
    \/ DistRedraw
    \/ Return

SpecDist == InitSel /\ [][NextDist]_vars

\* rand is fair: a draw that the loop's condition lets through comes in the
\* end, as long as there is one
SpecDistFair == SpecDist /\ WF_vars(DistDraw)

\* construction, seed changes, generation and the calls on the seed's
\* ColorModel
InitColor == InitFromHex(MaxSelPrecision, {180}, ConstantStreams)

NextColor ==
    \/ SetBaseColor
    \/ GeneratePalettes(ConstantStreams)
    \/ AdjustBaseColor(MaxAdjusts)
    \/ Clone
    \/ AdjustClone
    \/ Return

SpecColor == InitColor /\ [][NextColor]_vars

\* construction, configuration, generation and the calls of the single
\* generators
InitSingle == InitFromHex(MaxSinglePrecision, {180}, ConstantStreams)

NextSingle ==
    \/ SetPrecision(MaxSinglePrecision)
    \/ SetBaseColor
    \/ GeneratePalettes(ConstantStreams)
    \/ GenerateBasePalette(ConstantStreams, MaxPaletteLength)
    \/ GenerateLightPalette(ConstantStreams, MaxPaletteLength)
    \/ GenerateDarkPalette(ConstantStreams, MaxPaletteLength)
    \/ Return

SpecSingle == InitSingle /\ [][NextSingle]_vars

\* construction, configuration, generation and getRandomPalette, with a
\* precision above 2, where the filter passes apply
InitPasses == InitFromHex(MaxPassPrecision, {180}, {<<0, 0>>})

NextPasses ==
    \/ SetPrecision(MaxPassPrecision)
    \/ GeneratePalettes({<<0, 0>>})
    \/ GetRandomPalette(MaxPassLength)
    \/ Return

SpecPasses == InitPasses /\ [][NextPasses]_vars

\* the calls on a ColorModel the caller constructs: the setters and the
\* conversions read no generator
InitValue == InitFromHex(1, {180}, {<<0, 0>>})

NextValue ==
    \/ NewColor
    \/ SetColor
    \/ AddToHue
    \/ RgbToHex
    \/ HexToRgb
    \/ RgbToCmyk
    \/ Return

SpecValue == InitValue /\ [][NextValue]_vars

\* construction, configuration, generation and the two selections
NextSelect == NextRandom \/ NextDist

SpecSelect == InitSel /\ [][NextSelect]_vars

\* ----------------------------------------------------------------- claims

\* C1: when the constructor or generatePalettes has returned, base holds
\* 2 * precision + 1 colors, light and dark as many as base, and fullPalette
\* 3 * (2 * precision + 1), whatever precision, hueRange and seed were set
\* before.
C1_PaletteLengths ==
    (pc = "returned" /\ call.op \in {"constructor", "generatePalettes"})
        => /\ Len(palettes.base) = 2 * precision + 1
           /\ Len(palettes.light) = Len(palettes.base)
           /\ Len(palettes.dark) = Len(palettes.base)
           /\ Len(fullPalette) = 3 * (2 * precision + 1)

\* generatePalettes has returned at the largest precision, with the seed in
\* the middle of base
C1_Witness ==
    /\ pc = "returned"
    /\ call.op = "generatePalettes"
    /\ precision = MaxPrecision
    /\ palettes.base[precision + 1] = baseColor

\* C2: a call of getDistributedPalette that stands in a rejection-sampling
\* loop returns in the end, rand being fair.
C2_DistTerminates == (pc = "sampling") ~> (pc = "returned")

\* C3: with includeBaseColor, the palette getDistributedPalette returns
\* holds the seed color, on the small-pool path and on the sampling path.
C3_DistHoldsSeed ==
    (pc = "returned" /\ call.op = "getDistributedPalette"
        /\ call.includeBaseColor)
        => \E k \in 1..Len(result) : equals(result[k], baseColor)

\* C4: getRandomPalette returns at most max(1, length) colors, each one a
\* color of fullPalette, or the seed when includeBaseColor is set.
C4_RandomBounded ==
    (pc = "returned" /\ call.op = "getRandomPalette")
        => /\ Len(result) <= Max(1, call.length)
           /\ \A k \in 1..Len(result) :
                 \/ \E j \in 1..Len(fullPalette) : result[k] = fullPalette[j]
                 \/ call.includeBaseColor /\ result[k] = baseColor

\* length 0 is taken as 1, and the color returned is the seed, which
\* fullPalette does not hold
C4_Witness ==
    /\ pc = "returned"
    /\ call.op = "getRandomPalette"
    /\ call.length = 0
    /\ Len(result) = 1
    /\ result[1] = baseColor
    /\ \A j \in 1..Len(fullPalette) : result[1] # fullPalette[j]

\* C5: with includeBaseColor, the palette getRandomPalette returns holds a
\* color with the seed's hex, the pool being empty or not; when no color of
\* the shuffled and cut palette has the seed's hex, the palette returned is
\* that palette with the seed in place of its first color, sorted if asked.
C5_RandomHoldsSeed ==
    (pc = "returned" /\ call.op = "getRandomPalette"
        /\ call.includeBaseColor)
        => /\ \E k \in 1..Len(result) : result[k].hex = baseColor.hex
           /\ (\A k \in 1..Len(call.shuffled) :
                   call.shuffled[k].hex # baseColor.hex)
                => LET forced == <<baseColor>> \o
                                 (IF call.shuffled = << >> THEN << >>
                                  ELSE Tail(call.shuffled))
                   IN  /\ Len(result) = Len(forced)
                       /\ \A c \in {forced[k] : k \in 1..Len(forced)} :
                             Cardinality({k \in 1..Len(forced) :
                                            forced[k] = c})
                               = Cardinality({k \in 1..Len(result) :
                                                result[k] = c})
                       /\ ~ call.sortByBrightness => result = forced

\* the pool is empty and the palette returned is the seed alone
C5_Witness ==
    /\ pc = "returned"
    /\ call.op = "getRandomPalette"
    /\ call.includeBaseColor
    /\ call.pool = << >>
    /\ result = <<baseColor>>

\* C6: with sortByBrightness, the palette getDistributedPalette returns is
\* in non-decreasing order of hsv.v.
C6_DistSorted ==
    (pc = "returned" /\ call.op = "getDistributedPalette"
        /\ call.sortByBrightness)
        => \A k \in 1..(Len(result) - 1) :
              result[k].hsv.v <= result[k + 1].hsv.v

\* C7: with sortByBrightness, the palette getRandomPalette returns is in
\* non-decreasing order of hsv.v, the seed written at index 0 or not.
C7_RandomSorted ==
    (pc = "returned" /\ call.op = "getRandomPalette"
        /\ call.sortByBrightness)
        => \A k \in 1..(Len(result) - 1) :
              result[k].hsv.v <= result[k + 1].hsv.v

\* the seed was written at index 0 and the sort moved it behind a darker
\* color
C7_Witness ==
    /\ pc = "returned"
    /\ call.op = "getRandomPalette"
    /\ call.sortByBrightness
    /\ call.includeBaseColor
    /\ \A k \in 1..Len(call.shuffled) : call.shuffled[k].hex # baseColor.hex
    /\ Len(result) = 2
    /\ result[2] = baseColor
    /\ result[1].hsv.v < result[2].hsv.v

\* C8: with a pool of more than length + 1 colors and length >= 1,
\* getDistributedPalette returns as many colors as the length option asks.
C8_DistFull ==
    (pc = "returned" /\ call.op = "getDistributedPalette"
        /\ call.requested >= 1 /\ Len(call.pool) > call.length + 1)
        => Len(result) = call.requested

C10_DistSmallPool ==
    (pc = "returned" /\ call.op = "getDistributedPalette"
        /\ Len(call.pool) <= call.length + 1)
        => Len(result) = Min(call.length, Len(call.pool))

\* the seed took one of the places asked and the pool, one color larger
\* than what is left, was cut
C10_Witness ==
    /\ pc = "returned"
    /\ call.op = "getDistributedPalette"
    /\ call.includeBaseColor
    /\ call.length = call.requested - 1
    /\ call.length >= 1
    /\ Len(call.pool) = call.length + 1
    /\ Len(result) = call.length

C13_SeedWriteLeavesPalettes ==
    [][(pc = "idle" /\ pc' = "returned" /\ call'.op = "adjust")
          => palettes' = palettes]_vars

\* C14: the palettes change only in a call of generatePalettes: setBaseColor
\* and the assignments to precision and hueRange leave their elements and
\* their order as they were.
C14_OnlyGenerateChangesPalettes ==
    [][palettes' # palettes
          => (pc' = "returned" /\ call'.op = "generatePalettes")]_vars

\* precision and the seed were changed and the palettes are those of the
\* configuration before
C14_Witness ==
    /\ pc = "idle"
    /\ Len(palettes.base) # 2 * precision + 1
    /\ \A k \in 1..Len(palettes.base) : palettes.base[k].hex # baseColor.hex

\* C15: when generatePalettes has returned, base holds the seed at index
\* precision (counted from 0), before it the positive hue shifts with the
\* largest at index 0, after it the negative hue shifts with the largest at
\* the last index.
C15_BaseOrder ==
    (pc = "returned" /\ call.op \in {"constructor", "generatePalettes"})
        => LET p == precision
               shift(i) == RDiv(hueRange * 5 * i, p)
           IN  /\ palettes.base[p + 1] = baseColor
               /\ \A i \in 1..p :
                     /\ palettes.base[p + 1 - i].hsv.h
                          = addToHue(baseColor.hsv.h, shift(i))
                     /\ palettes.base[p + 1 + i].hsv.h
                          = addToHue(baseColor.hsv.h, -shift(i))

\* the palettes of the largest precision are generated, the hues at the two
\* ends half the hue range away from the seed's
C15_Witness ==
    /\ pc = "returned"
    /\ call.op = "generatePalettes"
    /\ precision = MaxPrecision
    /\ palettes.base[1].hsv.h
         = addToHue(baseColor.hsv.h, hueRange * 5)
    /\ palettes.base[2 * precision + 1].hsv.h
         = addToHue(baseColor.hsv.h, -hueRange * 5)
    /\ palettes.base[1].hsv.h # palettes.base[2 * precision + 1].hsv.h

\* C16: element i of fullPalette (counted from 0) is light[i] for i < n,
\* base[i - n] for n <= i < 2n and dark[i - 2n] beyond, n being the length
\* of base.
C16_FullPaletteOrder ==
    LET n == Len(palettes.base)
    IN  /\ Len(fullPalette) = 3 * n
        /\ \A i \in 0..(Len(fullPalette) - 1) :
              fullPalette[i + 1] = IF i < n THEN palettes.light[i + 1]
                                   ELSE IF i < 2 * n
                                   THEN palettes.base[i - n + 1]
                                   ELSE palettes.dark[i - 2 * n + 1]

\* palettes of the largest precision whose light, base and dark colors
\* differ at the first index
C16_Witness ==
    /\ pc = "returned"
    /\ call.op = "generatePalettes"
    /\ precision = MaxPrecision
    /\ palettes.light[1] # palettes.base[1]
    /\ palettes.base[1] # palettes.dark[1]
    /\ fullPalette[Len(palettes.base) + precision + 1] = baseColor

\* C17: over the colors the generator and the caller hold, equals is
\* reflexive, symmetric and transitive, and two colors are equal exactly
\* when their hex codes are the same, whatever setter or adjuster gave
\* them the code.
C17_EqualsIsHexEquality ==
    LET colors == {baseColor}
                  \cup {fullPalette[j] : j \in 1..Len(fullPalette)}
                  \cup {result[k] : k \in 1..Len(result)}
    IN  /\ \A a \in colors : equals(a, a)
        /\ \A a, b \in colors : equals(a, b) <=> a.hex = b.hex
        /\ \A a, b \in colors : equals(a, b) => equals(b, a)
        /\ \A a, b \in colors :
              equals(a, b) => \A c \in colors : equals(b, c) => equals(a, c)

\* a clone, made from the hex code, and the color cloned, set through its
\* HSV: one hex code and two HSV representations
C17_Witness ==
    /\ pc = "returned"
    /\ call.op = "clone"
    /\ result[1].hex = Held(call.holder).hex
    /\ result[1].hsv # Held(call.holder).hsv

\* C18: the color clone() returns equals the color cloned, and a setter or
\* adjuster call on it leaves the hex, rgb, hsl and hsv of every color the
\* generator holds as they were.
C18_CloneIsOwnInstance ==
    [][/\ (pc' = "returned" /\ call'.op = "clone")
            => LET h == call'.holder
                   c == IF h = 0 THEN baseColor ELSE fullPalette[h]
               IN  /\ equals(result'[1], c)
                   /\ baseColor' = baseColor
                   /\ palettes' = palettes
       /\ (pc' = "returned" /\ call'.op = "cloneAdjusted")
            => /\ baseColor' = baseColor
               /\ palettes' = palettes]_vars

\* the clone of a palette color was adjusted and has another hex code than
\* the color cloned
C18_Witness ==
    /\ pc = "returned"
    /\ call.op = "cloneAdjusted"
    /\ call.holder # 0
    /\ call.before.hex = Held(call.holder).hex
    /\ result[1].hex # Held(call.holder).hex

\* C19: after saturate(delta, max, min) the HSV saturation of the
\* color is clamp(previous hsv.s + delta, min, max), to one step of the
\* fixed point, whatever the color was.
C19_SaturationClamped ==
    (pc = "returned" /\ call.op \in {"adjust", "cloneAdjusted"}
        /\ call.adjust.name = "saturate")
        => LET after == IF call.op = "adjust" THEN baseColor ELSE result[1]
               clamped == ClampTo(call.before.hsv.s + call.adjust.delta,
                                  call.adjust.max, call.adjust.min)
           IN  /\ after.hsv.s - clamped <= 1
               /\ clamped - after.hsv.s <= 1

C21_SetterChains ==
    (pc = "returned" /\ call.op = "set")
        => LET c == result[1]
           IN  /\ call.rep = "hex"
                    => /\ c.hex = call.value
                       /\ c.rgb = hexToRgb(c.hex)
                       /\ c.hsl = rgbToHsl(c.rgb)
                       /\ c.hsv = hslToHsv(c.hsl)
               /\ call.rep = "rgb"
                    => /\ c.rgb = call.value
                       /\ c.hex = rgbToHex(c.rgb)
                       /\ c.hsl = rgbToHsl(c.rgb)
                       /\ c.hsv = hslToHsv(c.hsl)
               /\ call.rep = "hsl"
                    => /\ c.hsl = call.value
                       /\ c.rgb = hslToRgb(c.hsl)
                       /\ c.hex = rgbToHex(c.rgb)
                       /\ c.hsv = hslToHsv(c.hsl)
               /\ call.rep = "hsv"
                    => /\ c.hsv = call.value
                       /\ c.hsl = hsvToHsl(c.hsv)
                       /\ c.rgb = hslToRgb(c.hsl)
                       /\ c.hex = rgbToHex(c.rgb)

\* the hsl setter was called after another setter, and the hsv it left is
\* not the one the rgb it left would give
C21_Witness ==
    /\ pc = "returned"
    /\ call.op = "set"
    /\ call.rep = "hsl"
    /\ call.before.hsl # result[1].hsl
    /\ call.before.hex # Black
    /\ result[1].hsv # hslToHsv(rgbToHsl(result[1].rgb))

\* C22: for a hue h from 0 to 360 degrees and any amount, addToHue(h, add)
\* is within 0 and 360 degrees.
C22_HueInRange ==
    (pc = "returned" /\ call.op = "addToHue")
        => (result[1] >= 0 /\ result[1] <= 3600)

\* C23: for whole r, g and b from 0 to 255, rgbToHex gives "#" and six
\* lowercase hex digits, and hexToRgb of that code gives r, g and b again.
C23_HexRoundTrip ==
    (pc = "returned" /\ call.op = "rgbToHex")
        => /\ Len(result[1]) = 7
           /\ result[1][1] = "#"
           /\ \A i \in 2..7 : \E d \in 1..16 : result[1][i] = HexDigits[d]
           /\ result[2] = call.rgb

\* a color with a channel below 16, which takes a padding 0, and a channel
\* with a digit above 9
C23_Witness ==
    /\ pc = "returned"
    /\ call.op = "rgbToHex"
    /\ call.rgb.r = 9000
    /\ call.rgb.g = 199000
    /\ result[1] = <<"#", "0", "9", "c", "7", "0", "0">>

\* C24: for a string that is not an optional "#" followed by six hex
\* digits, hexToRgb returns black, and the constructor and the hex setter
\* given it leave a color whose rgb is black.
C24_MalformedIsBlack ==
    LET WellFormed(str) ==
            LET body == IF str # << >> /\ str[1] = "#"
                        THEN SubSeq(str, 2, Len(str)) ELSE str
            IN  /\ Len(body) = 6
                /\ \A i \in 1..6 :
                      body[i] \in {"0", "1", "2", "3", "4", "5", "6", "7",
                                   "8", "9", "a", "b", "c", "d", "e", "f",
                                   "A", "B", "C", "D", "E", "F"}
        black == [r |-> 0, g |-> 0, b |-> 0]
    IN  /\ (pc = "returned" /\ call.op = "hexToRgb"
               /\ ~ WellFormed(call.hexCode))
            => result[1] = black
        /\ (pc = "returned" /\ call.op = "new" /\ ~ WellFormed(call.value))
            => (result[1].rgb = black /\ result[1].hex = call.value)
        /\ (pc = "returned" /\ call.op = "set" /\ call.rep = "hex"
               /\ ~ WellFormed(call.value))
            => (result[1].rgb = black /\ result[1].hex = call.value)

\* a color that was not black is set to a code of seven digits and is black
C24_Witness ==
    /\ pc = "returned"
    /\ call.op = "set"
    /\ call.rep = "hex"
    /\ call.value = <<"#", "3", "4", "5", "9", "c", "7", "f">>
    /\ call.before.rgb # [r |-> 0, g |-> 0, b |-> 0]
    /\ result[1].rgb = [r |-> 0, g |-> 0, b |-> 0]

\* C25: for channels from 0 to 255, normalized or not, rgbToCmyk returns
\* four numbers, none of them NaN, and for black c, m and y are 0.
C25_CmykNeverNaN ==
    (pc = "returned" /\ call.op = "rgbToCmyk")
        => LET cmyk == result[1]
           IN  /\ \A x \in {cmyk.c, cmyk.m, cmyk.y, cmyk.k} :
                     x.kind = "number"
               /\ call.rgb = [r |-> 0, g |-> 0, b |-> 0]
                    => /\ cmyk.c.val = 0
                       /\ cmyk.m.val = 0
                       /\ cmyk.y.val = 0
                       /\ cmyk.k.val > 0

\* rgbToCmyk was called with black, where k is 1 and the quotients are 0 / 0
C25_Witness ==
    /\ pc = "returned"
    /\ call.op = "rgbToCmyk"
    /\ call.rgb = [r |-> 0, g |-> 0, b |-> 0]
    /\ ~ call.normalized
    /\ result[1].k = JsNumber(10000)

C27_PoolIsEveryFourth ==
    (pc = "returned" /\ call.op = "getRandomPalette")
        => LET bounded == FilterBounds(fullPalette, call.filter)
               n == Len(bounded)
           IN  IF call.filterPasses /\ precision > 2
               THEN /\ Len(call.pool) = n \div 4
                    /\ \A i \in 0..(n - 1) :
                          i % 4 = 3 => call.pool[(i + 1) \div 4] = bounded[i + 1]
               ELSE call.pool = bounded

\* the filter passes ran on a fullPalette whose length is not a multiple of
\* 4 and left two colors or more
C27_Witness ==
    /\ pc = "returned"
    /\ call.op = "getRandomPalette"
    /\ call.filterPasses
    /\ precision > 2
    /\ Len(FilterBounds(fullPalette, call.filter)) % 4 # 0
    /\ Len(call.pool) >= 2
    /\ call.pool[2] = FilterBounds(fullPalette, call.filter)[8]

\* C28: when getDistributedPalette returns from its loops, every color of
\* the filtered pool is in one band and one only, dark (hsv.v <= 37.5),
\* light (hsv.v >= 87.5) or mid (between), and the loops picked
\* min(|dark|, floor(length / 4)) dark colors, min(|light|,
\* floor(length / 4)) light colors and min(|mid|, length less the dark and
\* light colors picked) mid colors, length being what is left once the seed
\* is pushed.
C28_BandCounts ==
    (pc = "returned" /\ call.op = "getDistributedPalette"
        /\ Len(call.pool) > call.length + 1)
        => LET at(P(_)) == {k \in 1..Len(call.pool) : P(call.pool[k].hsv.v)}
               isDark(v) == v <= 375
               isLight(v) == v >= 875
               isMid(v) == v > 375 /\ v < 875
               quarter == call.length \div 4
               dark == Min(Cardinality(at(isDark)), quarter)
               light == Min(Cardinality(at(isLight)), quarter)
               mid == Min(Cardinality(at(isMid)),
                          call.length - dark - light)
           IN  /\ at(isDark) \cup at(isLight) \cup at(isMid)
                    = 1..Len(call.pool)
               /\ at(isDark) \cap at(isLight) = {}
               /\ at(isDark) \cap at(isMid) = {}
               /\ at(isLight) \cap at(isMid) = {}
               /\ Len(call.indexes.dark) = dark
               /\ Len(call.indexes.light) = light
               /\ Len(call.indexes.base) = mid
               /\ Len(result) = dark + light + mid
                                + (IF call.includeBaseColor THEN 1 ELSE 0)

\* the loops returned fewer mid colors than length leaves, the mid band
\* holding no more
C28_Witness ==
    /\ pc = "returned"
    /\ call.op = "getDistributedPalette"
    /\ call.phase = "done"
    /\ Len(call.indexes.base) >= 1
    /\ Len(call.indexes.base) = Len(Band(call.pool, "base"))
    /\ Len(call.indexes.base)
         < call.length - Len(call.indexes.dark) - Len(call.indexes.light)

\* C29: when getDistributedPalette returns from its loops, no index of a
\* band was picked twice, and with includeBaseColor no color picked has the
\* seed's hex code: the seed is in the result once.
C29_NoRepeatNoSeed ==
    (pc = "returned" /\ call.op = "getDistributedPalette"
        /\ Len(call.pool) > call.length + 1)
        => /\ \A b \in {"dark", "light", "base"} :
                 \A i, j \in 1..Len(call.indexes[b]) :
                    i # j => call.indexes[b][i] # call.indexes[b][j]
           /\ call.includeBaseColor
                => /\ \A b \in {"dark", "light", "base"} :
                         \A i \in 1..Len(call.indexes[b]) :
                            Band(call.pool, b)[call.indexes[b][i]].hex
                               # baseColor.hex
                   /\ Cardinality({k \in 1..Len(result) :
                                     result[k].hex = baseColor.hex}) = 1

\* the loops returned two colors or more beside the seed, from a pool that
\* holds a color of the seed's hex code
C29_Witness ==
    /\ pc = "returned"
    /\ call.op = "getDistributedPalette"
    /\ call.phase = "done"
    /\ call.includeBaseColor
    /\ Len(result) >= 3
    /\ \E k \in 1..Len(call.pool) : call.pool[k].hex = baseColor.hex

\* C30: a step of getRandomPalette or of getDistributedPalette leaves the
\* base, light and dark palettes, the seed, precision and hueRange as they
\* were.
C30_SelectionsLeaveGenerator ==
    [][(pc' # "idle"
          /\ call'.op \in {"getRandomPalette", "getDistributedPalette"})
          => /\ palettes' = palettes
             /\ baseColor' = baseColor
             /\ precision' = precision
             /\ hueRange' = hueRange]_vars

\* getRandomPalette returned a palette it sorted, with the seed written over
\* the first color drawn
C30_Witness ==
    /\ pc = "returned"
    /\ call.op = "getRandomPalette"
    /\ call.sortByBrightness
    /\ call.includeBaseColor
    /\ Len(result) = 2
    /\ result # call.shuffled
    /\ result[1] # call.shuffled[1]
    /\ result[2] = baseColor

====
